---------------------------- MODULE Spec2Model ----------------------------
(***************************************************************************)
(* kimai-cli: the duration parser (parse_duration), the request/response   *)
(* pipeline (api_request and its three callers) and the entry workflow     *)
(* (main) of src/src/main.rs.                                              *)
(*                                                                         *)
(* Numbers that do not fit a 32-bit integer (i64 values, f64 mantissas,    *)
(* chrono's Duration range) are kept exact as sequences of 15-bit limbs.   *)
(***************************************************************************)
EXTENDS Integers, Sequences, FiniteSets, TLC

----------------------------------------------------------------------------
(* Exact natural numbers: little-endian sequences of 15-bit limbs without  *)
(* a leading zero limb; <<>> is zero.                                      *)

Pow2Tab == <<1, 2, 4, 8, 16, 32, 64, 128, 256, 512, 1024, 2048, 4096, 8192,
             16384, 32768>>

LimbBits == Len(Pow2Tab) - 1

\* 2^k for 0 <= k <= LimbBits
Pow2(k) == Pow2Tab[k + 1]

Base == Pow2(LimbBits)

RECURSIVE Trim(_)
Trim(b) ==
    IF b = <<>> THEN <<>>
    ELSE IF b[Len(b)] = 0 THEN Trim(SubSeq(b, 1, Len(b) - 1))
    ELSE b

\* b * c + carry, for naturals c and carry below Base
RECURSIVE MulSmallC(_, _, _)
MulSmallC(b, c, carry) ==
    IF b = <<>>
    THEN IF carry = 0 THEN <<>> ELSE <<carry>>
    ELSE LET t == b[1] * c + carry
         IN  <<t % Base>> \o MulSmallC(Tail(b), c, t \div Base)

MulSmall(b, c) == Trim(MulSmallC(b, c, 0))

RECURSIVE AddC(_, _, _)
AddC(a, b, c) ==
    IF a = <<>> /\ b = <<>>
    THEN IF c = 0 THEN <<>> ELSE <<c>>
    ELSE LET x == IF a = <<>> THEN 0 ELSE a[1]
             y == IF b = <<>> THEN 0 ELSE b[1]
             t == x + y + c
         IN  <<t % Base>> \o AddC(IF a = <<>> THEN <<>> ELSE Tail(a),
                                  IF b = <<>> THEN <<>> ELSE Tail(b),
                                  t \div Base)

Add(a, b) == AddC(a, b, 0)

\* quotient and remainder of b by a positive d below 2 * Base (untrimmed q)
RECURSIVE DivModLimbs(_, _)
DivModLimbs(b, d) ==
    IF b = <<>> THEN [q |-> <<>>, r |-> 0]
    ELSE LET hi == DivModLimbs(Tail(b), d)
             t  == hi.r * Base + b[1]
         IN  [q |-> <<t \div d>> \o hi.q, r |-> t % d]

DivModSmall(b, d) ==
    LET qr == DivModLimbs(b, d) IN [q |-> Trim(qr.q), r |-> qr.r]

\* a < b
RECURSIVE LessFrom(_, _, _)
LessFrom(a, b, i) ==
    IF i = 0 THEN FALSE
    ELSE IF a[i] # b[i] THEN a[i] < b[i]
    ELSE LessFrom(a, b, i - 1)

Less(a, b) ==
    IF Len(a) # Len(b) THEN Len(a) < Len(b) ELSE LessFrom(a, b, Len(a))

\* number of significant bits
BitLen(b) ==
    IF b = <<>> THEN 0
    ELSE LimbBits * (Len(b) - 1)
             + (CHOOSE k \in 1..LimbBits : Pow2(k - 1) <= b[Len(b)] /\ b[Len(b)] < Pow2(k))

\* bit i of b, the lowest being bit 1
BitAt(b, i) == (b[((i - 1) \div LimbBits) + 1] \div Pow2((i - 1) % LimbBits)) % 2

\* b * 2^n
Shl(b, n) ==
    IF b = <<>> THEN <<>>
    ELSE [i \in 1..(n \div LimbBits) |-> 0] \o MulSmall(b, Pow2(n % LimbBits))

\* b \div 2^n
Shr(b, n) ==
    IF n \div LimbBits >= Len(b) THEN <<>>
    ELSE DivModSmall(SubSeq(b, (n \div LimbBits) + 1, Len(b)), Pow2(n % LimbBits)).q

FromInt(n) == Trim(<<n % Base, (n \div Base) % Base, n \div (Base * Base)>>)

\* decimal digits are taken four at a time: 10^4 is below Base
DecGroup == Len(<<0, 0, 0, 0>>)

\* the value of a sequence of at most DecGroup decimal digit values
RECURSIVE SmallDec(_)
SmallDec(ds) ==
    IF ds = <<>> THEN 0 ELSE 10 * SmallDec(SubSeq(ds, 1, Len(ds) - 1)) + ds[Len(ds)]

RECURSIVE Pow10(_)
Pow10(k) == IF k = 0 THEN 1 ELSE 10 * Pow10(k - 1)

\* the number written by a sequence of decimal digit values
RECURSIVE FromDec(_)
FromDec(ds) ==
    IF Len(ds) <= DecGroup THEN FromInt(SmallDec(ds))
    ELSE Trim(MulSmallC(FromDec(SubSeq(ds, 1, Len(ds) - DecGroup)), Pow10(DecGroup),
                        SmallDec(SubSeq(ds, Len(ds) - DecGroup + 1, Len(ds)))))

\* b \div 10^k and whether the division left a remainder
RECURSIVE DivPow10(_, _)
DivPow10(b, k) ==
    IF k <= DecGroup
    THEN LET qr == DivModSmall(b, Pow10(k)) IN [q |-> qr.q, exact |-> qr.r = 0]
    ELSE LET qr   == DivModSmall(b, Pow10(DecGroup))
             rest == DivPow10(qr.q, k - DecGroup)
         IN  [q |-> rest.q, exact |-> rest.exact /\ qr.r = 0]

----------------------------------------------------------------------------
(* Text.  A string is a sequence of characters; a character is written as  *)
(* a one-token string.  "U+0663" is ARABIC-INDIC DIGIT THREE, a character  *)
(* of Unicode class Nd: the regex crate's \d matches it, Rust's number     *)
(* parsers do not accept it.                                               *)

DigitChars == <<"0", "1", "2", "3", "4", "5", "6", "7", "8", "9">>

AsciiDigits == {DigitChars[i] : i \in 1..10}

OtherDigits == {"U+0663"}

DigitVal(c) == (CHOOSE i \in 1..10 : DigitChars[i] = c) - 1

DigitVals(s) == [i \in 1..Len(s) |-> DigitVal(s[i])]

\* the regex class \d (Unicode-aware, as the regex crate compiles it)
IsDigit(c) == c \in AsciiDigits \cup OtherDigits

\* \d+ against the whole of s
AllDigits(s) == s # <<>> /\ \A i \in 1..Len(s) : IsDigit(s[i])

AllAscii(s) == \A i \in 1..Len(s) : s[i] \in AsciiDigits

\* positions of a separator with \d+ on both sides (at most one exists)
SplitAt(s, sep) ==
    {i \in 2..(Len(s) - 1) :
        /\ s[i] = sep
        /\ AllDigits(SubSeq(s, 1, i - 1))
        /\ AllDigits(SubSeq(s, i + 1, Len(s)))}

\* decimal_re.is_match(input), decimal_re = ^\d+(\.\d+)?$
decimal_re_is_match(s) == AllDigits(s) \/ SplitAt(s, ".") # {}

\* time_re without its closing anchor, ^(\d+):(\d+) : the groups are \d+ before
\* the colon and the longest \d+ after it, whatever follows
time_re_captures_unanchored(s) ==
    LET at == {i \in 2..(Len(s) - 1) :
                  s[i] = ":" /\ AllDigits(SubSeq(s, 1, i - 1)) /\ IsDigit(s[i + 1])}
    IN  IF at = {} THEN <<>>
        ELSE LET i == CHOOSE j \in at : TRUE
                 e == CHOOSE j \in (i + 1)..Len(s) :
                         /\ AllDigits(SubSeq(s, i + 1, j))
                         /\ (j = Len(s) \/ ~IsDigit(s[j + 1]))
             IN  <<SubSeq(s, 1, i - 1), SubSeq(s, i + 1, e)>>

\* time_re.captures(input), time_re = ^(\d+):(\d+)$ : groups 1 and 2, or <<>>
time_re_captures(s) ==
    IF SplitAt(s, ":") = {} THEN <<>>
    ELSE LET i == CHOOSE j \in SplitAt(s, ":") : TRUE
         IN  <<SubSeq(s, 1, i - 1), SubSeq(s, i + 1, Len(s))>>

----------------------------------------------------------------------------
(* f64: a finite non-negative double is [m, e], value m * 2^e, with m a    *)
(* natural of at most 53 bits.  (Overflow to infinity and subnormals need  *)
(* more than 300 digits and are not represented.)                          *)

MantissaBits == 53

\* q * 2^0 with a sticky flag for what lies below q, rounded to nearest,
\* ties to even, to 53 significant bits: [m, e] with value m * 2^e
RoundNearestEven(q, sticky) ==
    IF BitLen(q) <= MantissaBits THEN [m |-> q, e |-> 0]
    ELSE LET drop  == BitLen(q) - MantissaBits
             m0    == Shr(q, drop)
             half  == BitAt(q, drop) = 1
             below == sticky \/ \E i \in 1..(drop - 1) : BitAt(q, i) = 1
             up    == half /\ (below \/ BitAt(m0, 1) = 1)
             m1    == IF up THEN AddC(m0, <<>>, 1) ELSE m0
         IN  IF BitLen(m1) > MantissaBits
             THEN [m |-> Shr(m1, 1), e |-> drop + 1]
             ELSE [m |-> m1, e |-> drop]

\* the double nearest to n / 10^k (Rust's str::parse::<f64> is correctly rounded)
NearestF64(n, k) ==
    IF n = <<>> THEN [m |-> <<>>, e |-> 0]
    ELSE LET s0 == MantissaBits + 2 + 4 * k - BitLen(n)
             s  == IF s0 > 0 THEN s0 ELSE 0
             qr == DivPow10(Shl(n, s), k)
             r  == RoundNearestEven(qr.q, ~qr.exact)
         IN  [m |-> r.m, e |-> r.e - s]

\* input.parse::<f64>() on a string that decimal_re matched
parse_f64(s) ==
    IF \E i \in 1..Len(s) : s[i] \in OtherDigits THEN [ok |-> FALSE]
    ELSE LET dot  == {i \in 1..Len(s) : s[i] = "."}
             k    == IF dot = {} THEN 0 ELSE Len(s) - (CHOOSE i \in dot : TRUE)
             digs == SelectSeq(s, LAMBDA c : c # ".")
         IN  [ok |-> TRUE, val |-> NearestF64(FromDec(DigitVals(digs)), k)]

\* f * (c as f64) for a small integer c, rounded
MulF64(f, c) ==
    LET r == RoundNearestEven(MulSmall(f.m, c), FALSE)
    IN  [m |-> r.m, e |-> f.e + r.e]

I64Bits == 63

\* 2^63 - 1
I64_MAX == <<Base - 1, Base - 1, Base - 1, Base - 1, Pow2(I64Bits - 4 * LimbBits) - 1>>

\* f as i64: truncation toward zero, saturating
F64AsI64(f) ==
    LET v == IF f.e >= 0 THEN Shl(f.m, f.e) ELSE Shr(f.m, 0 - f.e)
    IN  IF BitLen(v) > I64Bits THEN I64_MAX ELSE v

\* s.parse::<i64>() on a capture group of time_re
parse_i64(s) ==
    IF ~AllAscii(s) THEN [ok |-> FALSE]
    ELSE LET v == FromDec(DigitVals(s))
         IN  IF BitLen(v) > I64Bits THEN [ok |-> FALSE] ELSE [ok |-> TRUE, val |-> v]

----------------------------------------------------------------------------
(* chrono::Duration, in whole seconds.  Its range is i64::MAX              *)
(* milliseconds, so a whole number of seconds is in range up to            *)
(* i64::MAX / 1000.  Outcomes: Some duration, None, or a panic.            *)

\* i64::MAX / 1000 = 9223372036854775
DURATION_MAX_SECS == DivModSmall(I64_MAX, 1000).q

SECS_PER_MINUTE == 60

SECS_PER_HOUR == 3600

Some(secs) == [tag |-> "Some", secs |-> secs]

None == [tag |-> "None"]

Panic == [tag |-> "Panic"]

\* Duration::seconds(n): panics out of range
DurationSeconds(n) == IF Less(DURATION_MAX_SECS, n) THEN Panic ELSE Some(n)

\* Duration::hours(n), Duration::minutes(n): checked_mul, then the range check
DurationTimes(n, unit) ==
    LET secs == MulSmall(n, unit)
    IN  IF BitLen(secs) > I64Bits THEN Panic ELSE DurationSeconds(secs)

\* a + b on Durations.  Releases of chrono differ: the sum is range-checked
\* (panics) in some and is the plain sum of the fields in others.
DurationAdd(a, b, checked) ==
    IF a.tag = "Panic" \/ b.tag = "Panic" THEN Panic
    ELSE LET sum == Add(a.secs, b.secs)
         IN  IF checked /\ Less(DURATION_MAX_SECS, sum) THEN Panic ELSE Some(sum)

\* parse_duration with minutes held below 60
parse_duration_capped(input, checked) ==
    IF decimal_re_is_match(input)
    THEN LET hours == parse_f64(input)
         IN  IF ~hours.ok THEN None
             ELSE DurationSeconds(F64AsI64(MulF64(hours.val, SECS_PER_HOUR)))
    ELSE LET captures == time_re_captures(input)
         IN  IF captures = <<>> THEN None
             ELSE LET hours == parse_i64(captures[1])
                  IN  IF ~hours.ok THEN None
                      ELSE LET minutes == parse_i64(captures[2])
                           IN  IF ~minutes.ok THEN None
                               ELSE IF ~Less(minutes.val, FromInt(SECS_PER_MINUTE)) THEN None
                               ELSE DurationAdd(DurationTimes(hours.val, SECS_PER_HOUR),
                                                DurationTimes(minutes.val, SECS_PER_MINUTE),
                                                checked)

\* parse_duration(input); checked says whether the build's chrono range-checks
\* the sum of two Durations
parse_duration(input, checked) ==
    IF decimal_re_is_match(input)
    THEN LET hours == parse_f64(input)
         IN  IF ~hours.ok THEN None
             ELSE DurationSeconds(F64AsI64(MulF64(hours.val, SECS_PER_HOUR)))
    ELSE LET captures == time_re_captures(input)
         IN  IF captures = <<>> THEN None
             ELSE LET hours == parse_i64(captures[1])
                  IN  IF ~hours.ok THEN None
                      ELSE LET minutes == parse_i64(captures[2])
                           IN  IF ~minutes.ok THEN None
                               ELSE DurationAdd(DurationTimes(hours.val, SECS_PER_HOUR),
                                                DurationTimes(minutes.val, SECS_PER_MINUTE),
                                                checked)

----------------------------------------------------------------------------
(* The wire: what the server may answer to one exchange, as ureq hands it  *)
(* to api_request.                                                         *)

\* an entity of a JSON array: the keys present, and their values
Entity(fields, id, name, parentTitle) ==
    [fields |-> fields, id |-> id, name |-> name, parentTitle |-> parentTitle]

Body(raw, t, items) == [raw |-> raw, t |-> t, items |-> items]

EntitiesBody ==
    Body("[{id:1,name:Dev},{id:2,name:Coding,parentTitle:Engineering}]", "array",
         <<Entity({"id", "name"}, 1, "Dev", ""),
           Entity({"id", "name", "parentTitle"}, 2, "Coding", "Engineering")>>)

EmptyArrayBody == Body("[]", "array", <<>>)

\* an array whose element lacks the required key name
BadShapeBody == Body("[{id:3}]", "array", <<Entity({"id"}, 3, "", "")>>)

ObjectBody == Body("{id:7}", "object", <<>>)

NullBody == Body("null", "null", <<>>)

\* text that is not JSON
TextBody == Body("validation failed", "invalid", <<>>)

EmptyBody == Body("", "invalid", <<>>)

\* a body whose read fails (the connection drops mid-body, or the body is
\* over into_string's size limit): response.into_string() is an Err
UnreadableBody == Body("", "unreadable", <<>>)

Bodies ==
    {EntitiesBody, EmptyArrayBody, BadShapeBody, ObjectBody, NullBody, TextBody,
     EmptyBody, UnreadableBody}

StatusCodes == {200, 304, 422}

NoBody == Body("", "none", <<>>)

TransportFailure == [kind |-> "transport", status |-> 0, body |-> NoBody]

NoResponse == [kind |-> "none", status |-> 0, body |-> NoBody]

Responses ==
    {TransportFailure}
        \cup {[kind |-> "http", status |-> c, body |-> b] : c \in StatusCodes, b \in Bodies}

\* request.call() / request.send_json(data): ureq returns Err(Error::Status)
\* for a status of 400 and above, Ok(response) for any other status it hands
\* over, and another Err when the exchange did not complete
UreqResult(response) ==
    IF response.kind = "transport" THEN "Err(Transport)"
    ELSE IF response.status >= 400 THEN "Err(Status)"
    ELSE "Ok"

\* serde_json::from_str::<T>(text)
from_str(T, body) ==
    CASE T = "()" ->
            IF body.t = "null" THEN [ok |-> TRUE, value |-> <<>>] ELSE [ok |-> FALSE]
      [] T = "Vec<Project>" ->
            IF body.t = "array"
                   /\ \A i \in 1..Len(body.items) : {"id", "name"} \subseteq body.items[i].fields
            THEN [ok |-> TRUE,
                  value |-> [i \in 1..Len(body.items) |->
                                [id |-> body.items[i].id, name |-> body.items[i].name]]]
            ELSE [ok |-> FALSE]
      [] T = "Vec<Activity>" ->
            IF body.t = "array"
                   /\ \A i \in 1..Len(body.items) : {"id", "name"} \subseteq body.items[i].fields
            THEN [ok |-> TRUE,
                  value |-> [i \in 1..Len(body.items) |->
                                [id |-> body.items[i].id,
                                 parent_title |->
                                    IF "parentTitle" \in body.items[i].fields
                                    THEN <<body.items[i].parentTitle>> ELSE <<>>,
                                 name |-> body.items[i].name]]]
            ELSE [ok |-> FALSE]

\* a Result<T>, or the panic that ended the call
Ok(value) == [tag |-> "Ok", kind |-> "", code |-> 0, text |-> "", value |-> value]

Err(kind, code, text) ==
    [tag |-> "Err", kind |-> kind, code |-> code, text |-> text, value |-> <<>>]

Panicked == [tag |-> "Panic", kind |-> "Panic", code |-> 0, text |-> "", value |-> <<>>]

NoResult == [tag |-> "none", kind |-> "", code |-> 0, text |-> "", value |-> <<>>]

\* the request api_request sends
Request(config, url, body) ==
    [method |-> IF body = <<>> THEN "GET" ELSE "POST",
     url |-> <<config.endpoint>> \o url,
     accept |-> "application/json",
     authorization |-> <<"Bearer", config.token>>,
     body |-> body]

\* api_request::<T, B>: what it returns for the server's answer
api_request(T, response) ==
    CASE UreqResult(response) = "Err(Transport)" -> Err("TransportError", 0, "")
      [] UreqResult(response) = "Err(Status)" ->
            IF response.body.t = "unreadable" THEN Panicked
            ELSE Err("ServerError", response.status, response.body.raw)
      [] UreqResult(response) = "Ok" ->
            IF response.body.t = "unreadable" THEN Panicked
            ELSE LET data == from_str(T, response.body)
                 IN  IF data.ok THEN Ok(data.value) ELSE Err("DecodeError", 0, "")

\* serde's Serialize for TimesheetEditForm: description is skipped when None
Serialize(form) ==
    IF form.description = <<>>
    THEN [begin |-> form.begin, project |-> form.project, activity |-> form.activity,
          end |-> form.end]
    ELSE [begin |-> form.begin, project |-> form.project, activity |-> form.activity,
          end |-> form.end, description |-> form.description[1]]

----------------------------------------------------------------------------
(* Inputs.                                                                 *)

\* the longest duration string taken exhaustively
MaxLen == 4

Alphabet == {"0", "1", "4", ".", ":", " ", "h", "U+0663"}

ShortInputs == UNION {[1..n -> Alphabet] : n \in 0..MaxLen}

\* longer strings: clock values with minutes of 60 and more, long fractions,
\* unit suffixes, and values around the ends of the i64 and Duration ranges
NamedInputs ==
    { <<"1", ":", "9", "0">>,
      <<"2", ":", "3", "0">>,
      <<"2", ":", "1", "5">>,
      <<"0", ".", "0", "0", "0", "3">>,
      <<"0", ".", "0", "0", "0", "0", "1">>,
      <<"1", "h", "3", "0", "m">>,
      <<"a", "b", "c">>,
      <<"1", "\n">>,
      <<"1", ":", "U+0663", "0">>,
      <<"9", "9", "9", "9", "9", "9">>,
      <<"2", "5", "6", "2", "0", "4", "7", "7", "8", "8", "0", "1", "5">>,
      <<"2", "5", "6", "2", "0", "4", "7", "7", "8", "8", "0", "1", "6">>,
      <<"2", "5", "6", "2", "0", "4", "7", "7", "8", "8", "0", "1", "5", ":", "0">>,
      <<"2", "5", "6", "2", "0", "4", "7", "7", "8", "8", "0", "1", "5", ":", "1", "3">>,
      <<"2", "5", "6", "2", "0", "4", "7", "7", "8", "8", "0", "1", "6", ":", "0">>,
      <<"9", "2", "2", "3", "3", "7", "2", "0", "3", "6", "8", "5", "4", "7", "7", "5",
        "8", "0", "7", ":", "0">>,
      <<"9", "2", "2", "3", "3", "7", "2", "0", "3", "6", "8", "5", "4", "7", "7", "5",
        "8", "0", "8", ":", "0">>,
      <<"0", ":", "9", "2", "2", "3", "3", "7", "2", "0", "3", "6", "8", "5", "4", "7",
        "7", "5", "8", "0", "8">>,
      <<"9", "9", "9", "9", "9", "9", "9", "9", "9", "9", "9", "9", "9", "9", "9", "9",
        "9", "9", "9", "9", "9", "9">> }

Inputs == ShortInputs \cup NamedInputs

----------------------------------------------------------------------------
(* Time.  A date is a day number, a time of day a number of seconds, an    *)
(* instant a number of seconds since day 0 in UTC.                         *)

SECS_PER_DAY == 24 * SECS_PER_HOUR

\* config::default_start_time(): 09:00:00
default_start_time == 9 * SECS_PER_HOUR

\* the dates the date prompt can return
Dates == {1, 2}

\* what Local::now() can read
Clock == {[date |-> 1, time |-> 12 * SECS_PER_HOUR]}

\* times the user types instead of accepting the default
TypedTimes == {14 * SECS_PER_HOUR + 30 * SECS_PER_MINUTE}

\* offsets of the local time zone from UTC
UtcOffsets == {0, SECS_PER_HOUR}

\* texts the description prompt can return
Descriptions == {"", "notes"}

\* secs mod SECS_PER_DAY, for an exact secs
ModDay(secs) ==
    LET lo == DivModSmall(secs, 100)
    IN  DivModSmall(lo.q, SECS_PER_DAY \div 100).r * 100 + lo.r

\* Local::now().time() - duration: NaiveTime wraps around midnight
TimeMinus(time, secs) == (time + SECS_PER_DAY - ModDay(secs)) % SECS_PER_DAY

\* chrono's last instant, 262142-12-31T23:59:59 UTC
DATETIME_MAX_SECS == FromDec(<<8, 2, 1, 0, 2, 6, 6, 8, 7, 6, 7, 9, 9>>)

\* begin + duration with the duration left out
DateTimePlusNothing(instant, secs) == Some(instant)

\* begin + duration on DateTime<Local>: panics out of range
DateTimePlus(instant, secs) ==
    LET sum == Add(instant, secs)
    IN  IF Less(DATETIME_MAX_SECS, sum) THEN Panic ELSE Some(sum)

----------------------------------------------------------------------------
(* The state of one run of main.                                           *)

VARIABLES
    pc,             \* where main is: the call or prompt it waits on, or "exit"
    config,         \* <<config>> once load_config has returned it
    exchanges,      \* the requests sent so far, in order
    response,       \* the server's answer to the last request, inside api_request
    result,         \* what the last api_request returned
    projects,       \* <<the list>> given to the project prompt
    proj,           \* <<the chosen project>>
    activities,     \* <<the list>> given to the activity prompt
    activity,       \* <<the chosen activity>>
    input,          \* the text of the duration prompt: parse_duration's argument
    duration,       \* what parse_duration returned
    date,           \* <<the chosen date>>
    default_time,   \* <<the start time offered>>
    time_prompt,    \* <<the chosen start time>>
    form,           \* <<the TimesheetEditForm>>
    failure,        \* the kind of failure that ended the run, "" on none
    exit_status     \* the process's exit status, meaningful at "exit"

net == <<exchanges, response, result>>

choices == <<projects, proj, activities, activity>>

entry == <<input, duration, date, default_time, time_prompt, form>>

vars == <<pc, config, net, choices, entry, failure, exit_status>>

TheConfig ==
    [endpoint |-> "https://kimai.example", token |-> "secret",
     default_start_time |-> default_start_time]

EXIT_SUCCESS == 0

\* the status of a main that returned Err
EXIT_FAILURE == 1

\* the status of a process that panicked
EXIT_PANIC == 101

Init ==
    /\ pc = "load_config"
    /\ config = <<>>
    /\ exchanges = <<>>
    /\ response = NoResponse
    /\ result = NoResult
    /\ projects = <<>>
    /\ proj = <<>>
    /\ activities = <<>>
    /\ activity = <<>>
    /\ input = <<>>
    /\ duration = None
    /\ date = <<>>
    /\ default_time = <<>>
    /\ time_prompt = <<>>
    /\ form = <<>>
    /\ failure = ""
    /\ exit_status = EXIT_SUCCESS

\* main returns Err(kind), or Ok(()) when kind is ""
Return(kind) ==
    /\ pc' = "exit"
    /\ failure' = kind
    /\ exit_status' = IF kind = "" THEN EXIT_SUCCESS ELSE EXIT_FAILURE

\* a panic unwinds main
Abort(kind) ==
    /\ pc' = "exit"
    /\ failure' = kind
    /\ exit_status' = EXIT_PANIC

Continue(next) ==
    /\ pc' = next
    /\ UNCHANGED <<failure, exit_status>>

\* the ? on a Result from api_request, and the panic that passes through it
Propagate(res) == IF res.tag = "Panic" THEN Abort("Panic") ELSE Return(res.kind)

\* let config = config::load_config()?;
LoadConfig ==
    /\ pc = "load_config"
    /\ \/ /\ config' = <<TheConfig>>
          /\ Continue("get_projects")
       \/ /\ config' = config
          /\ Return("ConfigError")
    /\ UNCHANGED <<net, choices, entry>>

\* get_projects sent again after a failure
GetProjectsRetrying ==
    /\ pc = "get_projects"
    /\ exchanges' = Append(exchanges, Request(config[1], <<"/api/projects?visible=1">>, <<>>))
    /\ \E r \in Responses :
          /\ response' = r
          /\ result' = api_request("Vec<Project>", r)
    /\ IF result'.tag = "Ok"
       THEN projects' = <<result'.value>> /\ Continue("select_project")
       ELSE projects' = projects /\ Continue("get_projects")
    /\ UNCHANGED <<config, proj, activities, activity, entry>>

\* let projects = get_projects(&config)?;
GetProjects ==
    /\ pc = "get_projects"
    /\ exchanges' = Append(exchanges, Request(config[1], <<"/api/projects?visible=1">>, <<>>))
    /\ \E r \in Responses :
          /\ response' = r
          /\ result' = api_request("Vec<Project>", r)
    /\ IF result'.tag = "Ok"
       THEN projects' = <<result'.value>> /\ Continue("select_project")
       ELSE projects' = projects /\ Propagate(result')
    /\ UNCHANGED <<config, proj, activities, activity, entry>>

\* Select::new(message, options).prompt()?: an empty list is an error, and
\* the user picks an option or cancels
Select(options) == {<<>>} \cup {<<options[i]>> : i \in 1..Len(options)}

\* let proj = Select::new("Project:", projects).prompt()?;
SelectProject ==
    /\ pc = "select_project"
    /\ \E picked \in Select(projects[1]) :
          /\ proj' = picked
          /\ IF picked = <<>> THEN Return("PromptAbort") ELSE Continue("get_activities")
    /\ projects' = <<>>
    /\ response' = NoResponse
    /\ result' = NoResult
    /\ UNCHANGED <<config, exchanges, activities, activity, entry>>

\* get_activities_by_project(&config, proj.id)?
GetActivities ==
    /\ pc = "get_activities"
    /\ exchanges' = Append(exchanges,
                           Request(config[1],
                                   <<"/api/activities?visible=1&projects[]=", proj[1].id>>,
                                   <<>>))
    /\ \E r \in Responses :
          /\ response' = r
          /\ result' = api_request("Vec<Activity>", r)
    /\ IF result'.tag = "Ok"
       THEN activities' = <<result'.value>> /\ Continue("select_activity")
       ELSE activities' = activities /\ Propagate(result')
    /\ UNCHANGED <<config, projects, proj, activity, entry>>

\* let activity = Select::new("Activity:", ...).prompt()?;
SelectActivity ==
    /\ pc = "select_activity"
    /\ \E picked \in Select(activities[1]) :
          /\ activity' = picked
          /\ IF picked = <<>> THEN Return("PromptAbort") ELSE Continue("prompt_duration")
    /\ activities' = <<>>
    /\ response' = NoResponse
    /\ result' = NoResult
    /\ UNCHANGED <<config, exchanges, projects, proj, entry>>

\* what Text::new("Duration:") with required! and the default "1" can return:
\* a non-empty text
DurationTexts == Inputs \ {<<>>}

\* let duration = Text::new("Duration:")...prompt()?;
\* let duration = parse_duration(&duration).unwrap();
PromptDuration ==
    /\ pc = "prompt_duration"
    /\ \/ /\ UNCHANGED <<input, duration>>
          /\ Return("PromptAbort")
       \/ \E text \in DurationTexts, checked \in BOOLEAN :
             /\ input' = text
             /\ duration' = parse_duration(text, checked)
             /\ CASE duration'.tag = "Some" -> Continue("prompt_date")
                  [] duration'.tag = "None" -> Abort("ParseError")
                  [] duration'.tag = "Panic" -> Abort("Panic")
    /\ UNCHANGED <<config, net, choices, date, default_time, time_prompt, form>>

\* let date = DateSelect::new("Date:")...prompt()?;
\* let default_time = if date == Local::now().date_naive() {...} else {...};
PromptDate ==
    /\ pc = "prompt_date"
    /\ \/ /\ UNCHANGED <<date, default_time>>
          /\ Return("PromptAbort")
       \/ \E d \in Dates, now \in Clock :
             /\ date' = <<d>>
             /\ default_time' =
                   IF d = now.date THEN <<TimeMinus(now.time, duration.secs)>>
                   ELSE <<config[1].default_start_time>>
             /\ Continue("prompt_time")
    /\ UNCHANGED <<config, net, choices, input, duration, time_prompt, form>>

\* let time_prompt = CustomType::<NaiveTime>::new(...).with_default(default_time)...prompt()?;
PromptTime ==
    /\ pc = "prompt_time"
    /\ \/ /\ UNCHANGED time_prompt
          /\ Return("PromptAbort")
       \/ \E t \in {default_time[1]} \cup TypedTimes :
             /\ time_prompt' = <<t>>
             /\ Continue("prompt_description")
    /\ UNCHANGED <<config, net, choices, input, duration, date, default_time, form>>

\* date.and_time(time_prompt).and_local_timezone(Local).earliest(): None when
\* the local time does not exist, else the instant under one of the offsets
Earliest(d, t) == {<<>>} \cup {<<FromInt(d * SECS_PER_DAY + t - off)>> : off \in UtcOffsets}

\* let description = Text::new("Description:")...prompt()?;
\* let begin = ...unwrap(); let end = begin + duration;
\* and the TimesheetEditForm given to insert_timesheet_entry
PromptDescription ==
    /\ pc = "prompt_description"
    /\ \/ /\ UNCHANGED form
          /\ Return("PromptAbort")
       \/ \E description \in Descriptions, begin \in Earliest(date[1], time_prompt[1]) :
             IF begin = <<>> THEN UNCHANGED form /\ Abort("Panic")
             ELSE LET end == DateTimePlus(begin[1], duration.secs)
                  IN  IF end.tag = "Panic" THEN UNCHANGED form /\ Abort("Panic")
                      ELSE /\ form' = << [begin |-> begin[1],
                                          project |-> proj[1].id,
                                          activity |-> activity[1].id,
                                          end |-> end.secs,
                                          description |-> <<description>>] >>
                           /\ Continue("insert_timesheet_entry")
    /\ UNCHANGED <<config, net, choices, input, duration, date, default_time, time_prompt>>

\* insert_timesheet_entry(&config, form)?; Ok(())
InsertTimesheetEntry ==
    /\ pc = "insert_timesheet_entry"
    /\ exchanges' = Append(exchanges,
                           Request(config[1], <<"/api/timesheets">>, <<Serialize(form[1])>>))
    /\ \E r \in Responses :
          /\ response' = r
          /\ result' = api_request("()", r)
    /\ Propagate(result')
    /\ UNCHANGED <<config, choices, entry>>

Next ==
    \/ LoadConfig
    \/ GetProjects
    \/ SelectProject
    \/ GetActivities
    \/ SelectActivity
    \/ PromptDuration
    \/ PromptDate
    \/ PromptTime
    \/ PromptDescription
    \/ InsertTimesheetEntry

Spec == Init /\ [][Next]_vars

----------------------------------------------------------------------------
(* parse_duration on its own: any text, the empty one included.            *)

InitParse ==
    /\ pc = "parse_duration"
    /\ input \in Inputs
    /\ config = <<>>
    /\ exchanges = <<>>
    /\ response = NoResponse
    /\ result = NoResult
    /\ projects = <<>>
    /\ proj = <<>>
    /\ activities = <<>>
    /\ activity = <<>>
    /\ duration = None
    /\ date = <<>>
    /\ default_time = <<>>
    /\ time_prompt = <<>>
    /\ form = <<>>
    /\ failure = ""
    /\ exit_status = EXIT_SUCCESS

ParseDuration ==
    /\ pc = "parse_duration"
    /\ \E checked \in BOOLEAN : duration' = parse_duration(input, checked)
    /\ pc' = "returned"
    /\ UNCHANGED <<config, net, choices, input, date, default_time, time_prompt, form,
                   failure, exit_status>>

NextParse == ParseDuration

SpecParse == InitParse /\ [][NextParse]_vars

----------------------------------------------------------------------------
(* The grammars and values the properties speak of: \d read as an ASCII    *)
(* digit, values exact.                                                    *)

AsciiNumber(s) == s # <<>> /\ AllAscii(s)

AsciiSplit(s, sep) ==
    {i \in 2..(Len(s) - 1) :
        /\ s[i] = sep
        /\ AsciiNumber(SubSeq(s, 1, i - 1))
        /\ AsciiNumber(SubSeq(s, i + 1, Len(s)))}

DecimalGrammar(s) == AsciiNumber(s) \/ AsciiSplit(s, ".") # {}

ClockGrammar(s) == AsciiSplit(s, ":") # {}

ClockHours(s) ==
    FromDec(DigitVals(SubSeq(s, 1, (CHOOSE i \in AsciiSplit(s, ":") : TRUE) - 1)))

ClockMinutes(s) ==
    FromDec(DigitVals(SubSeq(s, (CHOOSE i \in AsciiSplit(s, ":") : TRUE) + 1, Len(s))))

\* h * 3600 + m * 60
ClockSeconds(s) ==
    Add(MulSmall(ClockHours(s), SECS_PER_HOUR), MulSmall(ClockMinutes(s), SECS_PER_MINUTE))

\* the decimal value of s times 3600, truncated: (digits * 3600) \div 10^k
DecimalSeconds(s) ==
    LET dot  == {i \in 1..Len(s) : s[i] = "."}
        k    == IF dot = {} THEN 0 ELSE Len(s) - (CHOOSE i \in dot : TRUE)
        digs == SelectSeq(s, LAMBDA c : c # ".")
    IN  DivPow10(MulSmall(FromDec(DigitVals(digs)), SECS_PER_HOUR), k).q

\* the call of parse_duration is over: it returned or it panicked
Ended == pc = "returned"

\* parse_duration returned a value
Returned == Ended /\ duration.tag # "Panic"

PostSent == Len(exchanges) = 3

----------------------------------------------------------------------------
(* Properties.                                                             *)

\* C1: the exchanges of a run are a prefix of GET projects, GET activities of
\* the chosen project's id, POST timesheets, each sent once; the POST is sent
\* only after every earlier step succeeded and is the last thing main does;
\* a failure ends the run with a non-zero status.
C1_ExchangeOrder ==
    /\ Len(exchanges) <= 3
    /\ Len(exchanges) >= 1 =>
          exchanges[1] = Request(TheConfig, <<"/api/projects?visible=1">>, <<>>)
    /\ Len(exchanges) >= 2 =>
          /\ proj # <<>>
          /\ exchanges[2] = Request(TheConfig,
                                    <<"/api/activities?visible=1&projects[]=", proj[1].id>>,
                                    <<>>)
    /\ PostSent =>
          /\ exchanges[3].method = "POST"
          /\ exchanges[3].url = <<TheConfig.endpoint, "/api/timesheets">>
          /\ proj # <<>> /\ activity # <<>>
          /\ input # <<>> /\ duration.tag = "Some"
          /\ date # <<>> /\ time_prompt # <<>> /\ form # <<>>
          /\ pc = "exit"
    /\ failure # "" => pc = "exit" /\ exit_status # EXIT_SUCCESS
    /\ (pc = "exit" /\ exit_status = EXIT_SUCCESS) => PostSent

C1_Witness == PostSent /\ pc = "exit" /\ exit_status = EXIT_SUCCESS

\* C3 as stated: for every clock string h:m, what parse_duration returns is a
\* duration of exactly h*3600 + m*60 seconds.
C3_Original ==
    (Returned /\ ClockGrammar(input)) => duration = Some(ClockSeconds(input))

\* C3 amended: every clock string h:m whose value h*3600 + m*60 seconds is in
\* the Duration range parses to exactly that many seconds, minutes of 60 and
\* more included.
C3_ClockInRange ==
    (Ended /\ ClockGrammar(input) /\ ~Less(DURATION_MAX_SECS, ClockSeconds(input)))
        => duration = Some(ClockSeconds(input))

C3_Witness ==
    /\ Ended
    /\ input = <<"1", ":", "9", "0">>
    /\ duration = Some(FromInt(9000))
    /\ duration = parse_duration(<<"2", ":", "3", "0">>, TRUE)

\* C4: for every decimal-hours string, what parse_duration returns is a
\* duration of its exact decimal value times 3600 seconds, truncated toward zero.
C4_DecimalExact ==
    (Returned /\ DecimalGrammar(input)) => duration = Some(DecimalSeconds(input))

\* C5: a string outside both grammars is a parse failure.
C5_Rejects ==
    (Ended /\ ~DecimalGrammar(input) /\ ~ClockGrammar(input)) => duration = None

C5_Witness == Ended /\ input = <<" ", "1", " ">> /\ duration = None

\* C10: parse_duration returns a duration or a parse failure, and never panics.
C10_Total == Ended => duration.tag \in {"Some", "None"}

\* C6 as stated: in every entry assembled, end = begin + duration and end is
\* strictly after begin.
C6_Original ==
    form # <<>> =>
        /\ form[1].end = Add(form[1].begin, duration.secs)
        /\ Less(form[1].begin, form[1].end)

\* C6 amended: in every entry assembled, end = begin + duration and end is not
\* before begin; it is strictly after begin exactly when the duration is not zero.
C6_EndNotBeforeBegin ==
    form # <<>> =>
        /\ form[1].end = Add(form[1].begin, duration.secs)
        /\ ~Less(form[1].end, form[1].begin)
        /\ Less(form[1].begin, form[1].end) <=> duration.secs # <<>>

C6_Witness ==
    /\ form # <<>>
    /\ input = <<"0", ":", "0">>
    /\ duration.secs = <<>>
    /\ form[1].end = form[1].begin

\* what the body of a 2xx answer decodes to, for the exchange just made
ExpectedType ==
    CASE Len(exchanges) = 1 -> "Vec<Project>"
      [] Len(exchanges) = 2 -> "Vec<Activity>"
      [] OTHER -> "()"

Is2xx(status) == status \in 200..299

\* C2: the class of the exchange decides what api_request returns: not
\* completed, a TransportError; a non-2xx status, a ServerError with the status
\* code and the body text; 2xx and a body of another shape, a DecodeError; 2xx
\* and a body of the expected shape, the decoded value.
C2_FourOutcomes ==
    response # NoResponse =>
        CASE response.kind = "transport" ->
                result.tag = "Err" /\ result.kind = "TransportError"
          [] response.kind = "http" /\ ~Is2xx(response.status) ->
                /\ result.tag = "Err" /\ result.kind = "ServerError"
                /\ result.code = response.status
                /\ result.text = response.body.raw
          [] response.kind = "http" /\ Is2xx(response.status) ->
                IF from_str(ExpectedType, response.body).ok
                THEN result = Ok(from_str(ExpectedType, response.body).value)
                ELSE result.tag = "Err" /\ result.kind = "DecodeError"

\* C7: insert_timesheet_entry succeeds whenever the POST is answered 2xx,
\* whatever the body: an object, null, empty or not JSON.
C7_BodyIgnored ==
    (PostSent /\ response.kind = "http" /\ Is2xx(response.status)
        /\ response.body \in {ObjectBody, NullBody, EmptyBody, TextBody})
        => result.tag = "Ok" /\ exit_status = EXIT_SUCCESS /\ failure = ""

\* C8: when the description prompt is left empty, the POST body has no
\* description key.
C8_EmptyDescriptionOmitted ==
    (PostSent /\ form[1].description = <<"">>)
        => "description" \notin DOMAIN exchanges[3].body[1]

FailureKinds ==
    {"ConfigError", "TransportError", "ServerError", "DecodeError", "ParseError",
     "PromptAbort"}

\* C9: each of the six kinds of failure ends the process with a non-zero exit
\* status, the same one for every kind (that of a main that returned Err).
C9_OneExitStatus ==
    (pc = "exit" /\ failure \in FailureKinds) => exit_status = EXIT_FAILURE

============================================================================
